---- MODULE Spec2Model ----
(***************************************************************************)
(* FactCheckMate bot (src/bot.py): the command/event handlers, the         *)
(* in-memory feedback_store, the claims table of claims.db, and the        *)
(* fact-check lookup with its AI fallback.                                 *)
(*                                                                         *)
(* Text is modelled as a sequence of one-character strings, so that        *)
(* slicing, replace(), split() and the f-string joins of the code are      *)
(* computed character by character.  A Python dict is a function whose     *)
(* domain is the set of keys that are present.                             *)
(***************************************************************************)
EXTENDS Integers, Sequences, FiniteSets, TLC

VARIABLES
    feedback_store,  \* bot.py:28   dict: key text -> vote type text
    claims_db,       \* bot.py:94   rows of table claims, in insertion order
    buttons,         \* callback_data of the vote buttons sent so far (bot.py:134)
    pressed,         \* history: <<claim id, voter id>> pressed -> vote type of its first press
    last,            \* what the handler that ran last was given and what it did
    tasks,           \* concurrent vote_handler tasks: position and locals
    api              \* one call of query_google_fact_check_api: JSON body, outcome

vars == <<feedback_store, claims_db, buttons, pressed, last, tasks, api>>

----------------------------------------------------------------------------
(* Bounds of the model.                                                    *)

MaxRows == 2         \* /factcheck invocations that reach log_claim
MaxPresses == 2      \* vote button presses handled in one run
MaxTextLen == 8      \* length of a group message

----------------------------------------------------------------------------
(* Python string and dict operations.                                      *)

Min(a, b) == IF a < b THEN a ELSE b

\* d.get(k, default)
get(d, k, default) == IF k \in DOMAIN d THEN d[k] ELSE default

\* the dict holding the keys ks of record full
dict(full, ks) == [k \in ks |-> full[k]]

\* {}
EmptyDict == [k \in {} |-> 0]

Digits == <<"0", "1", "2", "3", "4", "5", "6", "7", "8", "9">>

\* str(n) of a non-negative int, as the f-string of bot.py:164 formats it
RECURSIVE str_int(_)
str_int(n) ==
    IF n < 10 THEN <<Digits[n + 1]>>
    ELSE str_int(n \div 10) \o <<Digits[(n % 10) + 1]>>

\* " ".join(args)
RECURSIVE join_args(_)
join_args(args) ==
    IF Len(args) = 0 THEN <<>>
    ELSE IF Len(args) = 1 THEN args[1]
    ELSE args[1] \o <<" ">> \o join_args(Tail(args))

\* s.replace(old, new) for one-character old and new
replace(s, old, new) == [i \in 1..Len(s) |-> IF s[i] = old THEN new ELSE s[i]]

\* s.split(sep) for a one-character sep, from position i on, the current
\* part having begun at position start: empty parts are kept
RECURSIVE split_from(_, _, _, _)
split_from(s, sep, i, start) ==
    IF i > Len(s) THEN <<SubSeq(s, start, Len(s))>>
    ELSE IF s[i] = sep
         THEN <<SubSeq(s, start, i - 1)>> \o split_from(s, sep, i + 1, i + 1)
         ELSE split_from(s, sep, i + 1, start)

split_sep(s, sep) == split_from(s, sep, 1, 1)

Whitespace == {" ", "\t"}

\* s.split(), from position i on, the current word having begun at position
\* start (0: between words): runs of whitespace separate, no empty parts
RECURSIVE split_ws_from(_, _, _)
split_ws_from(s, i, start) ==
    IF i > Len(s)
    THEN (IF start = 0 THEN <<>> ELSE <<SubSeq(s, start, Len(s))>>)
    ELSE IF s[i] \in Whitespace
         THEN (IF start = 0 THEN <<>> ELSE <<SubSeq(s, start, i - 1)>>)
                  \o split_ws_from(s, i + 1, 0)
         ELSE split_ws_from(s, i + 1, IF start = 0 THEN i ELSE start)

split_ws(s) == split_ws_from(s, 1, 0)

----------------------------------------------------------------------------
(* query_google_fact_check_api, bot.py:48-71.                              *)

Unknown == <<"U", "n", "k", "n", "o", "w", "n">>
Unrated == <<"U", "n", "r", "a", "t", "e", "d">>

\* c.get("claimReview", [{}])[0]: the subscript raises IndexError on []
first_review(c) ==
    LET reviews == get(c, "claimReview", <<EmptyDict>>)
    IN  IF Len(reviews) = 0
        THEN [raised |-> TRUE, review |-> EmptyDict]
        ELSE [raised |-> FALSE, review |-> reviews[1]]

\* bot.py:54-55: not data.get("claims") -- key absent or list empty
no_claims(data) == Len(get(data, "claims", <<>>)) = 0

\* The f-string of bot.py:65-71, as a sequence of text pieces.
summary(text, source, rating, pub, url) ==
    <<"*Claim:* ">> \o text \o <<"*Source:* ">> \o source
        \o <<"*Rating:* ">> \o rating \o <<"*Publisher:* ">> \o pub
        \o <<"[Read more](">> \o url \o <<")">>

\* The outcome of the call on the parsed body data: kind "none" (returns
\* None), "raise" (an exception leaves the function) or "result" (returns
\* the formatted text).
query_google_fact_check_api(data) ==
    IF no_claims(data)
    THEN [kind |-> "none", text |-> <<>>]
    ELSE LET c == data["claims"][1]
             text == get(c, "text", Unknown)
             source == get(c, "claimant", Unknown)
             fr == first_review(c)
             review == fr.review
             rating == get(review, "textualRating", Unrated)
             pub == get(get(review, "publisher", EmptyDict), "name", Unknown)
             url == get(review, "url", <<>>)
         IN  IF fr.raised
             THEN [kind |-> "raise", text |-> <<"IndexError">>]
             ELSE [kind |-> "result",
                   text |-> summary(text, source, rating, pub, url)]

\* lookup with the failure of the request swallowed: None is returned
lookup_swallowing(http) ==
    IF ~http.ok THEN [kind |-> "none", text |-> <<>>]
    ELSE query_google_fact_check_api(http.data)

\* bot.py:51-52: requests.get or response.json() raises, or the body is
\* parsed and examined.
lookup(http) ==
    IF ~http.ok THEN [kind |-> "raise", text |-> <<"RequestException">>]
    ELSE query_google_fact_check_api(http.data)

----------------------------------------------------------------------------
(* JSON bodies of the search API.                                          *)

RatingFalse == <<"F", "a", "l", "s", "e">>
RatingTrue == <<"T", "r", "u", "e">>
Snopes == <<"S", "n", "o", "p", "e", "s">>
Url1 == <<"h", "t", "t", "p", ":", "/", "/", "x">>
ClaimText == <<"m", "o", "o", "n">>
Claimant == <<"B", "o", "b">>

Publishers == {EmptyDict, [name |-> Snopes]}

Reviews ==
    {dict([textualRating |-> RatingFalse, publisher |-> p, url |-> Url1], ks) :
        p \in Publishers, ks \in SUBSET {"textualRating", "publisher", "url"}}

OtherReview ==
    [textualRating |-> RatingTrue, publisher |-> [name |-> <<"A", "P">>],
     url |-> <<"u", "2">>]

ReviewLists ==
    {<<>>} \cup {<<r>> : r \in Reviews} \cup {<<r, OtherReview>> : r \in Reviews}

ApiClaims ==
    {dict([text |-> ClaimText, claimant |-> Claimant, claimReview |-> rl], ks) :
        rl \in ReviewLists, ks \in SUBSET {"text", "claimant", "claimReview"}}

OtherClaim ==
    [text |-> <<"s", "u", "n">>, claimant |-> <<"E", "v", "e">>,
     claimReview |-> <<OtherReview>>]

Bodies ==
    {EmptyDict, [claims |-> <<>>]}
        \cup {[claims |-> <<c>>] : c \in ApiClaims}
        \cup {[claims |-> <<c, OtherClaim>>] : c \in ApiClaims}

----------------------------------------------------------------------------
(* ai_suggest_fact_check, bot.py:73-89.                                    *)

AiUnavailable == <<"AI check unavailable right now.">>

\* completion: the ChatCompletion call raised (caught, bot.py:87-89), or
\* returned a message with the given content (bot.py:86)
ai_suggest_fact_check(completion) ==
    IF completion.ok THEN <<"*AI Suggestion:*">> \o completion.content
    ELSE AiUnavailable

Completions ==
    {[ok |-> FALSE, content |-> <<>>], [ok |-> TRUE, content |-> RatingFalse]}

----------------------------------------------------------------------------
(* Inputs of the handlers.                                                 *)

\* update.effective_user / query.from_user
Users ==
    {[id |-> 2, username |-> <<"b", "o", "b">>],
     [id |-> 12, username |-> <<"a", "n", "n">>]}

\* bot.py:26, the ids of the ADMIN_IDS environment variable
ADMIN_IDS == {12}

A49 == [i \in 1..49 |-> "a"]

\* context.args of /factcheck: the words after the command
ArgLists ==
    {<<>>,
     << <<"a">>, <<"1">> >>}

\* claims whose vote buttons are on display in the vote specifications:
\* "a", "a1", "a 1", "a_1 2", "a: b" and one of 52 characters with a space
\* at position 50
VoteClaims ==
    << <<"a">>, <<"a", "1">>, <<"a", " ", "1">>,
       <<"a", "_", "1", " ", "2">>, <<"a", ":", " ", "b">>,
       A49 \o <<" ", "a", "a">> >>

\* update.message.text of a group message, in the router's specification
GroupTexts ==
    {<<"a", " ", "a", " ", "a">>,
     <<"a", " ", "a", " ", "a", " ", "a">>,
     <<" ", "a", " ", " ", "a", "a", " ", "a", " ", "a", " ">>}

\* the answers of the search endpoint, in the router's specification:
\* no answer, no claims, a full claim, a claim with an empty review list
HttpDown == [ok |-> FALSE, data |-> EmptyDict]
HttpEmpty == [ok |-> TRUE, data |-> EmptyDict]
HttpOutcomes ==
    {HttpDown, HttpEmpty,
     [ok |-> TRUE, data |-> [claims |-> <<OtherClaim>>]],
     [ok |-> TRUE, data |-> [claims |-> <<[text |-> ClaimText, claimReview |-> <<>>]>>]]}

\* What the services answer during one handler: the claims.db write, the
\* search request, the completion request.  A request that is not reached
\* (bot.py:124 raised, the lookup raised or returned a result) is listed
\* with one answer only.
Envs ==
    {[storage_ok |-> FALSE, http |-> HttpDown, completion |-> c] :
        c \in {CHOOSE c \in Completions : ~c.ok}}
    \cup {[storage_ok |-> TRUE, http |-> o, completion |-> c] :
            o \in HttpOutcomes \ {HttpEmpty},
            c \in {CHOOSE c \in Completions : ~c.ok}}
    \cup {[storage_ok |-> TRUE, http |-> HttpEmpty, completion |-> c] :
            c \in Completions}

\* the answers given where the handler asks for none
DefaultEnv ==
    [storage_ok |-> TRUE, http |-> HttpDown,
     completion |-> CHOOSE c \in Completions : ~c.ok]

VoteTypes == {<<"v", "o", "t", "e", "_", "y", "e", "s">>,
              <<"v", "o", "t", "e", "_", "n", "o">>}

----------------------------------------------------------------------------
(* The handlers, bot.py:104-171.                                           *)

ClaimIdLen == 50

Usage == <<"Usage: /factcheck <your claim>">>
AutoPrefix == <<"Auto Fact-Check:">>
AlreadyVoted == <<"You already voted.">>
Thanks == <<"Thanks for your feedback!">>

\* log_claim replacing the table's rows by the new row
log_claim_replacing(db, user, claim) ==
    <<[user_id |-> user.id, username |-> user.username, claim |-> claim]>>

\* bot.py:104-110: INSERT INTO claims (user_id, username, claim)
log_claim(db, user, claim) ==
    Append(db, [user_id |-> user.id, username |-> user.username, claim |-> claim])

\* bot.py:130: claim[:50].replace(" ", "_")
make_claim_id(claim) ==
    replace(SubSeq(claim, 1, Min(Len(claim), ClaimIdLen)), " ", "_")

\* bot.py:112-116: the callback_data of one vote button
callback_data(vote_type, claim_id) == vote_type \o <<":">> \o claim_id

create_vote_buttons(claim_id) ==
    {callback_data(v, claim_id) : v \in VoteTypes}

\* the usage check left out
no_args_unchecked(args) == FALSE

\* bot.py:119: not context.args
no_args(args) == Len(args) = 0

\* the fallback test inverted: if response
needs_fallback_inverted(response) ==
    ~(response.kind = "none" \/ Len(response.text) = 0)

\* bot.py:127 and 155: not response
needs_fallback(response) == response.kind = "none" \/ Len(response.text) = 0

\* auto_fact_check counting the parts of text.split(" ")
auto_returns_single_space(user, text) ==
    user.id \notin ADMIN_IDS \/ Len(split_sep(text, " ")) < 4

\* bot.py:147-152: the two early returns of auto_fact_check
auto_returns(user, text) ==
    user.id \notin ADMIN_IDS \/ Len(split_ws(text)) < 4

\* the key with no separator: f"{claim_id}{query.from_user.id}"
make_key_unseparated(claim_id, user_id) == claim_id \o str_int(user_id)

\* bot.py:164: f"{claim_id}_{query.from_user.id}"
make_key(claim_id, user_id) == claim_id \o <<"_">> \o str_int(user_id)

\* the membership test left out
key_in_unchecked(key, store) == FALSE

\* bot.py:166: key in feedback_store
key_in(key, store) == key \in DOMAIN store

\* store[key] = value
dict_set(store, key, value) ==
    [k \in DOMAIN store \cup {key} |-> IF k = key THEN value ELSE store[k]]

\* What a handler did: the record kept in variable last.
Idle ==
    [handler |-> "none", user |-> 0, args |-> <<>>, text |-> <<>>,
     logged |-> 0, lookups |-> 0, http_failed |-> FALSE, lookup |-> "n/a",
     ai_calls |-> 0,
     ai_return |-> <<>>, raised |-> FALSE, replied |-> FALSE,
     reply |-> <<>>, markup |-> {}, vote |-> <<>>, claim_id |-> <<>>,
     first |-> FALSE]

\* bot.py:126-128 and 154-156: lookup, then the fallback if it is empty
respond(h0, http, completion) ==
    LET response == lookup(http)
        h == [h0 EXCEPT !.lookups = 1, !.http_failed = ~http.ok]
    IN  IF response.kind = "raise"
        THEN [h EXCEPT !.lookup = "raise", !.raised = TRUE]
        ELSE IF needs_fallback(response)
        THEN [h EXCEPT !.lookup = response.kind,
                       !.ai_calls = 1,
                       !.ai_return = ai_suggest_fact_check(completion),
                       !.replied = TRUE,
                       !.reply = ai_suggest_fact_check(completion)]
        ELSE [h EXCEPT !.lookup = response.kind,
                       !.replied = TRUE, !.reply = response.text]

\* bot.py:118-136
factcheck(user, args, storage_ok, http, completion) ==
    LET h == [Idle EXCEPT !.handler = "factcheck", !.user = user.id,
                          !.args = args]
        claim == join_args(args)
        r == respond([h EXCEPT !.logged = 1], http, completion)
    IN  IF no_args(args)
        THEN [h EXCEPT !.replied = TRUE, !.reply = Usage]
        ELSE IF ~storage_ok
        THEN [h EXCEPT !.raised = TRUE]
        ELSE IF r.raised THEN r
        ELSE [r EXCEPT !.claim_id = make_claim_id(claim),
                       !.markup = create_vote_buttons(make_claim_id(claim))]

\* bot.py:146-158
auto_fact_check(user, text, http, completion) ==
    LET h == [Idle EXCEPT !.handler = "auto", !.user = user.id, !.text = text]
        r == respond(h, http, completion)
    IN  IF auto_returns(user, text) THEN h
        ELSE IF r.raised THEN r
        ELSE [r EXCEPT !.reply = AutoPrefix \o r.reply]

\* bot.py:163-171, the part of vote_handler after await query.answer():
\* the outcome and the store it leaves
vote(store, data, user_id) ==
    LET parts == split_sep(data, ":")
        vote_type == parts[1]
        claim_id == parts[2]
        key == make_key(claim_id, user_id)
    IN  IF Len(parts) # 2
        THEN [raised |-> TRUE, reply |-> <<>>, store |-> store]
        ELSE IF key_in(key, store)
        THEN [raised |-> FALSE, reply |-> AlreadyVoted, store |-> store]
        ELSE [raised |-> FALSE, reply |-> Thanks,
              store |-> dict_set(store, key, vote_type)]

----------------------------------------------------------------------------
(* The router: updates handled one after another.                          *)

Init ==
    /\ feedback_store = EmptyDict
    /\ claims_db = <<>>
    /\ buttons = {}
    /\ pressed = EmptyDict
    /\ last = Idle
    /\ tasks = <<>>
    /\ api = [data |-> EmptyDict, out |-> [kind |-> "pending", text |-> <<>>]]

\* the /factcheck command, with or without words after it
Factcheck ==
    \E user \in Users, args \in ArgLists, env \in Envs :
        LET h == factcheck(user, args, env.storage_ok, env.http, env.completion)
        IN  /\ Len(args) = 0 \/ Len(claims_db) < MaxRows
            /\ Len(args) = 0 => env = DefaultEnv
            /\ last' = h
            /\ claims_db' = IF h.logged = 1
                            THEN log_claim(claims_db, user, join_args(args))
                            ELSE claims_db
            /\ buttons' = buttons \cup h.markup
            /\ UNCHANGED <<feedback_store, pressed, tasks, api>>

\* a text message in a group
AutoFactCheck ==
    \E user \in Users, text \in GroupTexts, env \in Envs :
        /\ env.storage_ok
        /\ auto_returns(user, text) => env = DefaultEnv
        /\ last' = auto_fact_check(user, text, env.http, env.completion)
        /\ UNCHANGED <<feedback_store, claims_db, buttons, pressed, tasks, api>>

\* the claim identifier and vote type a button was created with
button_of(data) ==
    CHOOSE b \in {<<v, SubSeq(data, Len(v) + 2, Len(data))>> : v \in VoteTypes} :
        callback_data(b[1], b[2]) = data

\* a press of one of the vote buttons sent so far
VotePress ==
    \E data \in buttons, user \in Users :
        LET r == vote(feedback_store, data, user.id)
            b == button_of(data)
            pair == <<b[2], user.id>>
        IN  /\ Cardinality(DOMAIN pressed) < MaxPresses \/ pair \in DOMAIN pressed
            /\ feedback_store' = r.store
            /\ pressed' = IF pair \in DOMAIN pressed THEN pressed
                          ELSE dict_set(pressed, pair, b[1])
            /\ last' = [Idle EXCEPT !.handler = "vote", !.user = user.id,
                                    !.vote = b[1], !.claim_id = b[2],
                                    !.raised = r.raised,
                                    !.replied = ~r.raised, !.reply = r.reply,
                                    !.first = pair \notin DOMAIN pressed]
            /\ UNCHANGED <<claims_db, buttons, tasks, api>>

\* The state once each claim of the list claims was fact-checked by a
\* /factcheck of user bob and its buttons were sent.
InitAfter(claims) ==
    /\ feedback_store = EmptyDict
    /\ claims_db = [i \in 1..Len(claims) |->
                       [user_id |-> 2, username |-> <<"b", "o", "b">>,
                        claim |-> claims[i]]]
    /\ buttons = UNION {create_vote_buttons(make_claim_id(claims[i])) :
                            i \in 1..Len(claims)}
    /\ pressed = EmptyDict
    /\ last = Idle
    /\ tasks = <<>>
    /\ api = [data |-> EmptyDict, out |-> [kind |-> "pending", text |-> <<>>]]

\* The votes alone, on the buttons of VoteClaims.
SpecVotes == InitAfter(VoteClaims) /\ [][VotePress]_vars

----------------------------------------------------------------------------
(* Group messages alone, over every text of at most MaxTextLen characters. *)

AllTexts == UNION {[1..n -> {"a", " ", "\t"}] : n \in 1..MaxTextLen}

\* one group message, received and not yet handled
InitAuto ==
    /\ feedback_store = EmptyDict
    /\ claims_db = <<>>
    /\ buttons = {}
    /\ pressed = EmptyDict
    /\ last \in {[Idle EXCEPT !.handler = "pending", !.user = u.id, !.text = t] :
                   u \in Users, t \in AllTexts}
    /\ tasks = <<>>
    /\ api = [data |-> EmptyDict, out |-> [kind |-> "pending", text |-> <<>>]]

AutoFactCheckPending ==
    \E user \in Users, env \in Envs :
        /\ last.handler = "pending"
        /\ user.id = last.user
        /\ env.storage_ok
        /\ auto_returns(user, last.text) => env = DefaultEnv
        /\ last' = auto_fact_check(user, last.text, env.http, env.completion)
        /\ UNCHANGED <<feedback_store, claims_db, buttons, pressed, tasks, api>>

SpecAuto == InitAuto /\ [][AutoFactCheckPending]_vars

----------------------------------------------------------------------------
(* The lookup alone, over the JSON bodies of Bodies.                       *)

InitLookup ==
    /\ feedback_store = EmptyDict
    /\ claims_db = <<>>
    /\ buttons = {}
    /\ pressed = EmptyDict
    /\ last = Idle
    /\ tasks = <<>>
    /\ api \in {[data |-> d, out |-> [kind |-> "pending", text |-> <<>>]] :
                  d \in Bodies}

Lookup ==
    /\ api.out.kind = "pending"
    /\ api' = [api EXCEPT !.out = query_google_fact_check_api(api.data)]
    /\ UNCHANGED <<feedback_store, claims_db, buttons, pressed, last, tasks>>

SpecLookup == InitLookup /\ [][Lookup]_vars

----------------------------------------------------------------------------
(* vote_handler as concurrent tasks of the event loop: a task runs from    *)
(* one await to the next without interruption (bot.py:162, 167, 171).      *)

NumTasks == 2

ConcClaims == << <<"a", " ", "1">>, <<"a", ":", " ", "b">> >>

IdleTask == [pc |-> "idle", data |-> <<>>, user |-> 0, reply |-> <<>>]

InitConc ==
    /\ feedback_store = EmptyDict
    /\ claims_db = [i \in 1..Len(ConcClaims) |->
                       [user_id |-> 2, username |-> <<"b", "o", "b">>,
                        claim |-> ConcClaims[i]]]
    /\ buttons = UNION {create_vote_buttons(make_claim_id(ConcClaims[i])) :
                            i \in 1..Len(ConcClaims)}
    /\ pressed = EmptyDict
    /\ last = Idle
    /\ tasks = [t \in 1..NumTasks |-> IdleTask]
    /\ api = [data |-> EmptyDict, out |-> [kind |-> "pending", text |-> <<>>]]

\* the application creates the task of a button press; it runs to
\* await query.answer(), bot.py:161-162
Dispatch(t) ==
    \E data \in buttons, user \in Users :
        /\ tasks[t].pc = "idle"
        /\ tasks' = [tasks EXCEPT ![t] = [pc |-> "answer", data |-> data,
                                          user |-> user.id, reply |-> <<>>]]
        /\ UNCHANGED <<feedback_store, claims_db, buttons, pressed, last, api>>

\* the task resumes after query.answer() and runs bot.py:163-171 to its
\* next await: the reply_text of line 167 or of line 171, or it raises
Resume(t) ==
    LET r == vote(feedback_store, tasks[t].data, tasks[t].user)
    IN  /\ tasks[t].pc = "answer"
        /\ feedback_store' = r.store
        /\ tasks' = [tasks EXCEPT ![t].pc = IF r.raised THEN "raised" ELSE "reply",
                                  ![t].reply = r.reply]
        /\ UNCHANGED <<claims_db, buttons, pressed, last, api>>

\* reply_text completes and the handler returns
Deliver(t) ==
    /\ tasks[t].pc = "reply"
    /\ tasks' = [tasks EXCEPT ![t].pc = "done"]
    /\ UNCHANGED <<feedback_store, claims_db, buttons, pressed, last, api>>

NextConc == \E t \in 1..NumTasks : Dispatch(t) \/ Resume(t) \/ Deliver(t)

SpecConc == InitConc /\ [][NextConc]_vars

Next == Factcheck \/ AutoFactCheck \/ VotePress

Spec == Init /\ [][Next]_vars

----------------------------------------------------------------------------
(* The properties.                                                         *)

\* the (claim identifier, voter id) pairs of the buttons on display
ButtonPairs ==
    {<<button_of(d)[2], u.id>> : d \in buttons, u \in Users}

\* C1 (as claimed, under SpecVotes): for every (claim identifier, voter id)
\* pair the first press of a button is accepted -- answered "Thanks for
\* your feedback" with its value stored -- and every later press of the
\* pair is answered "You already voted"; the value stored for a pair stays
\* the value of its first press.
C1_FirstVoteWins ==
    /\ last.handler = "vote" =>
           /\ last.replied
           /\ last.reply = IF last.first THEN Thanks ELSE AlreadyVoted
    /\ \A pair \in DOMAIN pressed :
           /\ key_in(make_key(pair[1], pair[2]), feedback_store)
           /\ feedback_store[make_key(pair[1], pair[2])] = pressed[pair]

\* text s contains a ':'
HasColon(s) == \E i \in 1..Len(s) : s[i] = ":"

\* C1, the part that holds under SpecVotes: the same for every pair whose
\* identifier contains no ':'; a press on an identifier that contains one
\* raises.
C1_FirstVoteWinsWhenParsed ==
    /\ last.handler = "vote" /\ ~HasColon(last.claim_id) =>
           /\ last.replied
           /\ last.reply = IF last.first THEN Thanks ELSE AlreadyVoted
    /\ last.handler = "vote" /\ HasColon(last.claim_id) => last.raised
    /\ \A pair \in DOMAIN pressed :
           ~HasColon(pair[1]) =>
               /\ key_in(make_key(pair[1], pair[2]), feedback_store)
               /\ feedback_store[make_key(pair[1], pair[2])] = pressed[pair]

C7_EveryPressAnswered ==
    last.handler = "vote" =>
        /\ last.replied
        /\ last.reply \in {AlreadyVoted, Thanks}

\* the number of whitespace-separated words of text: the positions where a
\* word begins
NumWords(text) ==
    Cardinality({i \in 1..Len(text) :
                    /\ text[i] \notin Whitespace
                    /\ i = 1 \/ text[i - 1] \in Whitespace})

\* the group message handled last qualifies: sender in the admin set and at
\* least 4 words
Qualifies(h) ==
    h.handler = "auto" /\ h.user \in ADMIN_IDS /\ NumWords(h.text) >= 4

\* the /factcheck handled last carried claim text and its write to
\* claims.db did not fail
Submits(h) ==
    h.handler = "factcheck" /\ Len(h.args) > 0 /\ ~(h.raised /\ h.lookups = 0)

\* db2 is db1 with one row appended, submitted by h's user with h's text
AppendsRow(db1, db2, h) ==
    /\ Len(db2) = Len(db1) + 1
    /\ SubSeq(db2, 1, Len(db1)) = db1
    /\ db2[Len(db2)].user_id = h.user
    /\ db2[Len(db2)].claim = join_args(h.args)

\* C3 (as claimed, under Spec): a claim record is written by every
\* /factcheck that carries claim text and by every qualifying group message.
C3_RecordForEveryQualifying ==
    Submits(last) \/ Qualifies(last) => last.logged = 1

\* C3 (amended, Spec): a /factcheck that carries claim text appends exactly
\* one row, its submitter and text, unless the write itself fails; every
\* other handler, the qualifying group message included, leaves the table
\* as it is; rows already written are never changed or removed.
C3_RecordPerFactcheckOnly ==
    [][IF Submits(last')
       THEN AppendsRow(claims_db, claims_db', last')
       ELSE claims_db' = claims_db]_vars

\* C3 witness: a qualifying group message has been answered and the table
\* holds the two rows written before it.
C3_Witness ==
    /\ Qualifies(last) /\ last.replied
    /\ Len(claims_db) = 2
    /\ claims_db[1] # claims_db[2]

\* what ai_suggest_fact_check can return
AdvisorTexts ==
    {AiUnavailable}
        \cup {<<"*AI Suggestion:*">> \o c.content : c \in {x \in Completions : x.ok}}

\* C4 (Spec): in /factcheck and in the group auto-check, the advisor is
\* called exactly once when the lookup returns no result and not at all
\* when it returns a result; in the first case a reply is sent and its text
\* is the advisor's return value (the AI answer or the unavailability
\* message), behind the Auto Fact-Check prefix in the group path.
C4_FallbackOnlyWhenEmpty ==
    last.handler \in {"factcheck", "auto"} =>
        /\ last.lookup = "none" =>
               /\ last.ai_calls = 1
               /\ last.ai_return \in AdvisorTexts
               /\ last.replied
               /\ last.reply = IF last.handler = "auto"
                               THEN AutoPrefix \o last.ai_return
                               ELSE last.ai_return
        /\ last.lookup # "none" => last.ai_calls = 0
        /\ last.lookup = "result" => last.replied /\ last.ai_return = <<>>

\* C4 witness: a group message met an empty lookup and a failing
\* completion call, and the unavailability message was sent.
C4_Witness ==
    /\ last.handler = "auto" /\ last.lookup = "none"
    /\ last.reply = AutoPrefix \o AiUnavailable

\* C5 (Spec): /factcheck with no arguments replies with the usage hint,
\* writes no row, makes no lookup and no advisor call, sends no buttons,
\* and leaves the claims table and the vote map as they were.
C5_NoArgsOnlyUsage ==
    [][last'.handler = "factcheck" /\ Len(last'.args) = 0 =>
           /\ last'.replied /\ last'.reply = Usage
           /\ last'.logged = 0 /\ last'.lookups = 0 /\ last'.ai_calls = 0
           /\ last'.markup = {}
           /\ claims_db' = claims_db
           /\ feedback_store' = feedback_store
           /\ buttons' = buttons]_vars

\* C5 witness: the usage hint was sent while rows and votes exist.
C5_Witness ==
    /\ last.handler = "factcheck" /\ Len(last.args) = 0 /\ last.reply = Usage
    /\ Len(claims_db) > 0
    /\ DOMAIN feedback_store # {}

\* C10 (Spec): when the lookup fails (the request raises, or parsing the
\* body does), the handler makes no advisor call and sends no reply and no
\* buttons; the vote map is unchanged; the row /factcheck wrote before the
\* lookup stays in the table, the group path writing none; and the command
\* or button press handled next is answered as usual.
C10_LookupFailureContained ==
    [][/\ last'.http_failed \/ last'.lookup = "raise" =>
              /\ last'.lookup = "raise"
              /\ last'.ai_calls = 0 /\ ~last'.replied /\ last'.markup = {}
              /\ feedback_store' = feedback_store
              /\ buttons' = buttons
              /\ IF last'.handler = "factcheck"
                 THEN AppendsRow(claims_db, claims_db', last')
                 ELSE claims_db' = claims_db
       /\ last.lookup = "raise" =>
              /\ last'.handler = "vote" =>
                     last'.replied /\ feedback_store' # EmptyDict
              /\ last'.lookup \in {"none", "result"} => last'.replied
              /\ IF Submits(last')
                 THEN AppendsRow(claims_db, claims_db', last')
                 ELSE claims_db' = claims_db]_vars

\* C10 witness: a /factcheck whose lookup raised has left its row, the
\* second of the table, and the vote cast earlier is still stored.
C10_Witness ==
    /\ last.handler = "factcheck" /\ last.lookup = "raise" /\ ~last.replied
    /\ Len(claims_db) = 2
    /\ DOMAIN feedback_store # {}

\* C6 (SpecAuto): the group handler makes the lookup if and only if the
\* sender is in the admin set and the text has at least 4 words; otherwise
\* it returns with no lookup, no advisor call and no reply; a reply it sends
\* begins with the Auto Fact-Check prefix.
C6_AutoCheckIffAdminAndFourWords ==
    last.handler = "auto" =>
        /\ last.lookups = 1 <=> Qualifies(last)
        /\ last.lookups = 0 =>
               last.ai_calls = 0 /\ ~last.replied /\ last.lookup = "n/a"
        /\ last.replied => SubSeq(last.reply, 1, 1) = AutoPrefix

\* C6 witness: an admin's message of 4 words separated by runs of blanks
\* and tabs was looked up and answered.
C6_Witness ==
    /\ Qualifies(last) /\ last.replied
    /\ NumWords(last.text) = 4
    /\ Len(last.text) > 7
    /\ \E i \in 1..Len(last.text) : last.text[i] = "\t"

\* the first review of claim c, if it has one
ReviewOf(c) ==
    IF "claimReview" \in DOMAIN c /\ Len(get(c, "claimReview", <<>>)) > 0
    THEN c["claimReview"][1]
    ELSE EmptyDict

\* the text, or the placeholder where the field is absent
OrElse(d, k, placeholder) == IF k \in DOMAIN d THEN d[k] ELSE placeholder

\* C8 (as claimed, under SpecLookup): for every body whose claims array is
\* not empty the lookup returns the summary of the first claim: its text,
\* claimant, rating and publisher name, with Unknown or Unrated for each
\* field that is absent -- no review list, an empty review list and a
\* review without publisher included.
C8_SummaryOfFirstClaim ==
    api.out.kind # "pending" /\ "claims" \in DOMAIN api.data
                             /\ Len(get(api.data, "claims", <<>>)) > 0 =>
        LET c == api.data["claims"][1]
            review == ReviewOf(c)
            publisher == OrElse(review, "publisher", EmptyDict)
        IN  /\ api.out.kind = "result"
            /\ api.out.text =
                   summary(OrElse(c, "text", Unknown),
                           OrElse(c, "claimant", Unknown),
                           OrElse(review, "textualRating", Unrated),
                           OrElse(publisher, "name", Unknown),
                           OrElse(review, "url", <<>>))

\* C8, the part that holds under SpecLookup: the same for every body whose
\* first claim does not carry an empty review list, for which the lookup
\* raises.
C8_SummaryUnlessEmptyReviewList ==
    api.out.kind # "pending" /\ "claims" \in DOMAIN api.data
                             /\ Len(get(api.data, "claims", <<>>)) > 0 =>
        IF /\ "claimReview" \in DOMAIN api.data["claims"][1]
           /\ Len(api.data["claims"][1]["claimReview"]) = 0
        THEN api.out.kind = "raise"
        ELSE C8_SummaryOfFirstClaim

\* task t was answered "Thanks for your feedback": its vote was accepted
Accepted(t) ==
    tasks[t].pc \in {"reply", "done"} /\ tasks[t].reply = Thanks

\* the (claim identifier, voter id) pair of task t's press
PairOf(t) == <<button_of(tasks[t].data)[2], tasks[t].user>>

\* C9 (as claimed, under SpecConc): the membership test and the insert of
\* vote_handler are not atomic: the step in which a task tests
\* key in feedback_store writes nothing, the insert being a later step that
\* other tasks can run before.
C9_CheckAndInsertNotAtomic ==
    [][\A t \in 1..NumTasks :
           tasks[t].pc = "answer" /\ tasks'[t].pc # "answer" =>
               feedback_store' = feedback_store]_vars

\* C9 (amended, SpecConc): the test and the insert run with no suspension
\* point between them, so of the tasks pressing for the same pair, however
\* they interleave at their awaits, at most one is accepted, and the value
\* stored for the pair is the accepted task's value: no later write
\* replaces it.
C9_AtMostOneAcceptedPerPair ==
    \A t1 \in 1..NumTasks :
        Accepted(t1) =>
            /\ key_in(make_key(PairOf(t1)[1], PairOf(t1)[2]), feedback_store)
            /\ feedback_store[make_key(PairOf(t1)[1], PairOf(t1)[2])]
                   = button_of(tasks[t1].data)[1]
            /\ \A t2 \in 1..NumTasks \ {t1} :
                   tasks[t2].pc # "idle" /\ PairOf(t2) = PairOf(t1) =>
                       /\ ~Accepted(t2)
                       /\ tasks[t2].pc \in {"reply", "done"} =>
                              tasks[t2].reply = AlreadyVoted

\* C9 witness: two tasks pressed the two buttons of one claim for one
\* voter; task 2 was rejected and has finished while the reply of task 1,
\* the accepted one, is still being sent.
C9_Witness ==
    /\ tasks[1].pc = "reply" /\ tasks[1].reply = Thanks
    /\ tasks[2].pc = "done" /\ tasks[2].reply = AlreadyVoted
    /\ PairOf(1) = PairOf(2)
    /\ tasks[1].data # tasks[2].data

====
